---- MODULE Spec2Model ----
(***************************************************************************)
(* A model of the tracing framework's C++ capture core                     *)
(* (bindings/cpp/buffer.cc): OutputBuffer::StartChunk, the mutex-guarded   *)
(* StringTable, and the EventBuffer whose single producer publishes        *)
(* chunks of 32-bit slots to concurrent savers through the atomics         *)
(* published_size and next.                                                *)
(*                                                                         *)
(* Concurrency.  Every load or store of an atomic is one step of its       *)
(* thread; thread-private statements are folded into the step of the       *)
(* atomic access that follows or precedes them.  The buffer has one        *)
(* writer, and all its atomic stores are releases read by acquires, so     *)
(* every value a reader can load is the value of some interleaving of      *)
(* these steps.  Every StringTable method holds mu_ from its first         *)
(* statement to its return and is one step.                                *)
(***************************************************************************)
EXTENDS Integers, Sequences, FiniteSets, TLC

VARIABLES
  chunks,           \* [buffer -> Seq(Chunk)]: the Chunk objects in allocation
                    \* order; a Chunk* is an index, head_ is index 1
  current_,         \* [buffer -> Chunk*]: EventBuffer::current_
  producer,         \* [buffer -> the owning thread's position and locals]
  strings_,         \* StringTable::strings_: Seq(string)
  strings_to_id_,   \* StringTable::strings_to_id_: string -> id
  interned,         \* history since the last Clear: the <<string, id>> pairs
                    \* GetStringId returned, whether a call found its string
                    \* in the table, and whether there was a Clear
  registry,         \* the participants of a save, in part order
  saver,            \* [saver thread -> its position, locals and output]
  call              \* the StartChunk call of the layout specification

vars == <<chunks, current_, producer, strings_, strings_to_id_, interned,
          registry, saver, call>>

-----------------------------------------------------------------------------
(* Bounds of the model. *)

\* chunk_limit_: slots per chunk (chunk_size_bytes / sizeof(uint32_t))
ChunkLimit == 2
\* Chunk objects one buffer may allocate, the head included
MaxChunks == 3
\* saves one saver thread performs
MaxSaves == 2
\* parts in a StartChunk call of the layout specification
MaxParts == 3

-----------------------------------------------------------------------------
(* uint32_t.  A value is the pair of its 16-bit halves, so that arithmetic *)
(* wraps at 2^32 as the machine's does.                                    *)

Half == 65536

U32(n) == [hi |-> (n \div Half) % Half, lo |-> n % Half]

WrapAdd(a, b) ==
  LET lo == a.lo + b.lo
      hi == a.hi + b.hi + (lo \div Half)
  IN  [hi |-> hi % Half, lo |-> lo % Half]

\* a % m for m dividing 2^16
U32Mod(a, m) == a.lo % m

\* the value as a number; used where the value is below 2^31
U32Nat(a) == a.hi * Half + a.lo

\* a / 4
U32Div4(a) == (a.hi * (Half \div 4)) + (a.lo \div 4)

-----------------------------------------------------------------------------
(* OutputBuffer: the byte sink is the sequence of bytes written so far.    *)

kAlignment == 4
kChunkHeaderSize == 24
kPartHeaderSize == 12

AppendBytes(out, bytes) == out \o bytes

\* little-endian
AppendUint32(out, v) ==
  out \o <<v.lo % 256, v.lo \div 256, v.hi % 256, v.hi \div 256>>

Align(out) ==
  LET rem == Len(out) % kAlignment
  IN  IF rem = 0 THEN out
      ELSE out \o [i \in 1..(kAlignment - rem) |-> 0]

PartHeader(type, offset, length) ==
  [type |-> type, offset |-> offset, length |-> length]

\* buffer.cc:19-24
UnalignedLength(length) == length

AlignedLength(length) ==
  LET rem == U32Mod(length, kAlignment)
  IN  IF rem # 0 THEN WrapAdd(length, U32(kAlignment - rem)) ELSE length

\* buffer.cc:13-28: the layout loop from part i on
RECURSIVE ComputeLayout(_, _, _, _)
ComputeLayout(parts, i, chunk_length, part_offset) ==
  IF i > Len(parts)
  THEN [parts |-> parts, chunk_length |-> chunk_length]
  ELSE LET aligned_length == AlignedLength(parts[i].length)
       IN  ComputeLayout([parts EXCEPT ![i].offset = part_offset], i + 1,
                         WrapAdd(chunk_length, aligned_length),
                         WrapAdd(part_offset, aligned_length))

\* buffer.cc:38-44
RECURSIVE AppendPartHeaders(_, _, _)
AppendPartHeaders(out, parts, i) ==
  IF i > Len(parts) THEN out
  ELSE AppendPartHeaders(
         AppendUint32(AppendUint32(AppendUint32(out, parts[i].type),
                                   parts[i].offset), parts[i].length),
         parts, i + 1)

\* buffer.cc:7-45: the parts array as left to the caller, and the sink
StartChunk(out, header, parts) ==
  LET part_count == Len(parts)
      layout == ComputeLayout(parts, 1,
                  U32(kChunkHeaderSize + part_count * kPartHeaderSize), U32(0))
      o1 == AppendUint32(out, header.id)
      o2 == AppendUint32(o1, header.type)
      o3 == AppendUint32(o2, layout.chunk_length)
      o4 == AppendUint32(o3, header.start_time)
      o5 == AppendUint32(o4, header.end_time)
      o6 == AppendUint32(o5, U32(part_count))
  IN  [parts |-> layout.parts,
       chunk_length |-> layout.chunk_length,
       out |-> AppendPartHeaders(o6, layout.parts, 1)]

-----------------------------------------------------------------------------
(* StringTable.  A string is the sequence of its bytes.                    *)

\* buffer.cc:49-61 under mu_: the table after the call and the id returned
GetStringIdWithoutLookup(strs, ids, str) ==
  LET id == Len(strs)
  IN  [strings |-> Append(strs, str),
       ids |-> [t \in DOMAIN ids \cup {str} |-> IF t = str THEN id ELSE ids[t]],
       id |-> id]

GetStringId(strs, ids, str) ==
  IF str \notin DOMAIN ids
  THEN LET id == Len(strs)
       IN  [strings |-> Append(strs, str),
            ids |-> [t \in DOMAIN ids \cup {str} |->
                       IF t = str THEN id ELSE ids[t]],
            id |-> id]
  ELSE [strings |-> strs, ids |-> ids, id |-> ids[str]]

\* buffer.cc:67-70
RECURSIVE RawLengthWithoutTerminators(_)
RawLengthWithoutTerminators(strs) ==
  IF strs = <<>> THEN 0
  ELSE Len(Head(strs)) + RawLengthWithoutTerminators(Tail(strs))

RECURSIVE RawLength(_)
RawLength(strs) ==
  IF strs = <<>> THEN 0 ELSE Len(Head(strs)) + 1 + RawLength(Tail(strs))

\* buffer.cc:63-75; the store to header->length keeps 32 bits
StringTablePopulateHeader(strs) ==
  PartHeader(U32(3 * Half), U32(0), U32(RawLength(strs)))

\* buffer.cc:84-95: the loop from string i on
RECURSIVE WriteStrings(_, _, _, _, _)
WriteStrings(strs, i, raw_length, expected_raw_length, out) ==
  IF i > Len(strs) THEN [ret |-> TRUE, out |-> Align(out)]
  ELSE LET s == strs[i]
           raw == raw_length + Len(s) + 1
       IN  IF raw <= expected_raw_length
           THEN LET o == AppendBytes(out, s \o <<0>>)
                IN  IF raw = expected_raw_length
                    THEN [ret |-> TRUE, out |-> Align(o)]
                    ELSE WriteStrings(strs, i + 1, raw, expected_raw_length, o)
           ELSE [ret |-> FALSE, out |-> out]

\* buffer.cc:77-98
StringTableWriteTo(strs, header, out) ==
  WriteStrings(strs, 1, 0, U32Nat(header.length), out)

-----------------------------------------------------------------------------
(* EventBuffer.                                                            *)

NullChunk == 0
head_ == 1

\* the content of a slot of new uint32_t[limit] that was never written
Indeterminate == [hi |-> -1, lo |-> -1]

\* Chunk::Chunk(limit)
NewChunk(limit) ==
  [limit |-> limit, size |-> 0, published_size |-> 0, next |-> NullChunk,
   slots |-> [i \in 0..(limit - 1) |-> Indeterminate]]

\* buffer.cc:106-114
NewEventBuffer == <<NewChunk(ChunkLimit)>>

Min(a, b) == IF a < b THEN a ELSE b

\* the word the producer stores in the k-th slot it writes (k = 1, 2, ...)
SlotValue(k) == U32(k)

RECURSIVE DecodeSlots(_)
DecodeSlots(bytes) ==
  IF Len(bytes) < 4 THEN <<>>
  ELSE <<[lo |-> bytes[1] + 256 * bytes[2], hi |-> bytes[3] + 256 * bytes[4]]>>
       \o DecodeSlots(SubSeq(bytes, 5, Len(bytes)))

-----------------------------------------------------------------------------
(* The producer: the one thread that owns buffer b.  It reserves slots     *)
(* with AddSlots and writes every reserved slot before it reserves again.  *)

Buffers == DOMAIN chunks

IdleProducer ==
  [pc |-> "idle", count |-> 0, new_chunk |-> NullChunk,
   chunk |-> NullChunk, at |-> 0, left |-> 0, written |-> 0]

\* history: a step of a producer ends the quiet of every saver's pass
Disturbed == [s \in DOMAIN saver |-> [saver[s] EXCEPT !.quiet = FALSE]]

\* EventBuffer::AddSlots(count): reserve in the current chunk when the
\* request fits, call ExpandAndAddSlots(count) otherwise
AddSlots(b, count) ==
  /\ producer[b].pc = "idle"
  /\ LET chunk == chunks[b][current_[b]]
         current_size == chunk.size
         new_size == current_size + count
     IN  IF new_size > chunk.limit
         THEN /\ Len(chunks[b]) < MaxChunks
              /\ producer' = [producer EXCEPT ![b].pc = "expand",
                                              ![b].count = count]
              /\ UNCHANGED chunks
         ELSE /\ chunks' = [chunks EXCEPT ![b][current_[b]].size = new_size]
              /\ producer' = [producer EXCEPT ![b].pc = "fill",
                                              ![b].count = count,
                                              ![b].chunk = current_[b],
                                              ![b].at = current_size,
                                              ![b].left = count]
  /\ saver' = Disturbed
  /\ UNCHANGED <<current_, strings_, strings_to_id_, interned, registry, call>>

\* buffer.cc:126-127: the new chunk, not yet reachable from head_
ExpandedChunkPublished(count) ==
  [NewChunk(ChunkLimit) EXCEPT !.size = count, !.published_size = count]

ExpandedChunk(count) == [NewChunk(ChunkLimit) EXCEPT !.size = count]

ExpandAndAddSlots_NewChunk(b) ==
  /\ producer[b].pc = "expand"
  /\ chunks' = [chunks EXCEPT ![b] = Append(@, ExpandedChunk(producer[b].count))]
  /\ producer' = [producer EXCEPT ![b].pc = "publish_size",
                                  ![b].new_chunk = Len(chunks[b]) + 1]
  /\ saver' = Disturbed
  /\ UNCHANGED <<current_, strings_, strings_to_id_, interned, registry, call>>

\* buffer.cc:130-131: the release store that seals the old chunk
PublishedLimitStored(chunk) == [chunk EXCEPT !.published_size = chunk.limit]

PublishedSizeStored(chunk) == [chunk EXCEPT !.published_size = chunk.size]

ExpandAndAddSlots_NoPublishSize(b) ==
  /\ producer[b].pc = "publish_size"
  /\ producer' = [producer EXCEPT ![b].pc = "publish_next"]
  /\ saver' = Disturbed
  /\ UNCHANGED <<chunks, current_, strings_, strings_to_id_, interned,
                 registry, call>>

ExpandAndAddSlots_PublishSize(b) ==
  /\ producer[b].pc = "publish_size"
  /\ chunks' = [chunks EXCEPT ![b][current_[b]] = PublishedSizeStored(@)]
  /\ producer' = [producer EXCEPT ![b].pc = "publish_next"]
  /\ saver' = Disturbed
  /\ UNCHANGED <<current_, strings_, strings_to_id_, interned, registry, call>>

\* buffer.cc:134-139: the release store of next; current_ moves on and the
\* caller receives new_chunk->slots
ExpandAndAddSlots_PublishNext(b) ==
  /\ producer[b].pc = "publish_next"
  /\ chunks' = [chunks EXCEPT ![b][current_[b]].next = producer[b].new_chunk]
  /\ current_' = [current_ EXCEPT ![b] = producer[b].new_chunk]
  /\ producer' = [producer EXCEPT ![b].pc = "fill",
                                  ![b].chunk = producer[b].new_chunk,
                                  ![b].at = 0,
                                  ![b].left = producer[b].count]
  /\ saver' = Disturbed
  /\ UNCHANGED <<strings_, strings_to_id_, interned, registry, call>>

\* the caller of AddSlots writes one of the slots it was handed
WriteSlot(b) ==
  /\ producer[b].pc = "fill"
  /\ producer[b].at < chunks[b][producer[b].chunk].limit
  /\ chunks' = [chunks EXCEPT ![b][producer[b].chunk].slots[producer[b].at] =
                  SlotValue(producer[b].written + 1)]
  /\ producer' = [producer EXCEPT
                    ![b].written = @ + 1,
                    ![b].at = @ + 1,
                    ![b].left = @ - 1,
                    ![b].pc = IF producer[b].left = 1 THEN "idle" ELSE "fill"]
  /\ saver' = Disturbed
  /\ UNCHANGED <<current_, strings_, strings_to_id_, interned, registry, call>>

\* The caller of AddSlots writes a slot it was handed that lies past the end
\* of new uint32_t[limit]: undefined behaviour.  The store lands in memory
\* of no chunk, or in a slot word of another chunk of the buffer, after
\* which the producer goes on; or it faults and the thread stops.
OutsideStorageOutcomes(b) ==
  {chunks[b]} \cup
  {[chunks[b] EXCEPT ![c].slots[j] = SlotValue(producer[b].written + 1)] :
     c \in (1..Len(chunks[b])) \ {producer[b].chunk}, j \in 0..(ChunkLimit - 1)}

WriteSlotOutsideStorage(b) ==
  /\ producer[b].pc = "fill"
  /\ producer[b].at >= chunks[b][producer[b].chunk].limit
  /\ \/ /\ \E after \in OutsideStorageOutcomes(b) :
            chunks' = [chunks EXCEPT ![b] = after]
        /\ producer' = [producer EXCEPT
                          ![b].written = @ + 1,
                          ![b].at = @ + 1,
                          ![b].left = @ - 1,
                          ![b].pc = IF producer[b].left = 1 THEN "idle"
                                    ELSE "fill"]
     \/ /\ producer' = [producer EXCEPT ![b].pc = "fault"]
        /\ UNCHANGED chunks
  /\ saver' = Disturbed
  /\ UNCHANGED <<current_, strings_, strings_to_id_, interned, registry, call>>

-----------------------------------------------------------------------------
(* The saver: a thread running Runtime::Save.  It calls PopulateHeader on  *)
(* every participant of the registry in part order, then StartChunk, then  *)
(* every participant's WriteTo in the same order, into a sink of its own.  *)

Savers == DOMAIN saver

\* the registry entry of the StringTable; an EventBuffer's entry is its id
StringTablePart == 0

NoPass == [parts |-> <<>>, out |-> <<>>, starts |-> <<>>, ends |-> <<>>,
           rets |-> <<>>]

IdleSaver ==
  [pc |-> "idle", pass |-> 0, part |-> 0, parts |-> <<>>,
   chunk |-> NullChunk, published_slot_count |-> 0, count |-> 0,
   published_size |-> 0, append_count |-> 0, i |-> 0,
   out |-> <<>>, chunk_length |-> U32(0),
   starts |-> <<>>, ends |-> <<>>, rets |-> <<>>,
   quiet |-> FALSE, prev |-> NoPass, saves |-> 0]

\* what a pass leaves behind: its headers, its bytes and where each part's
\* payload begins and ends in them
PassOf(sv) ==
  [parts |-> sv.parts, out |-> sv.out, starts |-> sv.starts,
   ends |-> sv.ends, rets |-> sv.rets]

\* the bytes part k's WriteTo appended in pass p
Payload(p, k) == SubSeq(p.out, p.starts[k] + 1, p.ends[k])

\* the call of participant k's PopulateHeader (buffer.cc:143-144 for a buffer)
BeginPopulate(sv, k) ==
  IF registry[k] = StringTablePart
  THEN [sv EXCEPT !.part = k, !.pc = "st_populate"]
  ELSE [sv EXCEPT !.part = k, !.pc = "eb_populate_size",
                  !.chunk = head_, !.published_slot_count = 0]

AfterPopulate(sv) ==
  IF sv.part < Len(registry) THEN BeginPopulate(sv, sv.part + 1)
  ELSE [sv EXCEPT !.pc = "start_chunk"]

\* the call of participant k's WriteTo (buffer.cc:157-158 for a buffer)
BeginWrite(sv, k) ==
  LET w == [sv EXCEPT !.part = k, !.starts = Append(@, Len(sv.out))]
  IN  IF registry[k] = StringTablePart
      THEN [w EXCEPT !.pc = "st_write"]
      ELSE [w EXCEPT !.pc = "eb_write", !.chunk = head_,
                     !.count = U32Div4(sv.parts[k].length)]

\* participant sv.part's WriteTo returned ret
AfterWrite(sv, ret) ==
  LET w == [sv EXCEPT !.rets = Append(@, ret), !.ends = Append(@, Len(sv.out))]
  IN  IF sv.part < Len(registry) THEN BeginWrite(w, sv.part + 1)
      ELSE [w EXCEPT !.pc = "idle"]

\* every producer is between two reservations
ProducersAtRest == \A b \in Buffers : producer[b].pc = "idle"

\* Runtime::Save begins: a fresh sink, one zeroed header per participant
Save(s) ==
  /\ saver[s].pc = "idle"
  /\ saver[s].pass < saver[s].saves
  /\ saver' = [saver EXCEPT ![s] =
       BeginPopulate([saver[s] EXCEPT
                        !.pass = @ + 1,
                        !.prev = PassOf(saver[s]),
                        !.parts = [k \in 1..Len(registry) |->
                                     PartHeader(U32(0), U32(0), U32(0))],
                        !.out = <<>>, !.starts = <<>>, !.ends = <<>>,
                        !.rets = <<>>, !.chunk_length = U32(0),
                        !.quiet = ProducersAtRest], 1)]
  /\ UNCHANGED <<chunks, current_, producer, strings_, strings_to_id_,
                 interned, registry, call>>

\* buffer.cc:63-75, under mu_
StringTable_PopulateHeader(s) ==
  /\ saver[s].pc = "st_populate"
  /\ saver' = [saver EXCEPT ![s] =
       AfterPopulate([saver[s] EXCEPT
                        !.parts[saver[s].part] =
                           StringTablePopulateHeader(strings_)])]
  /\ UNCHANGED <<chunks, current_, producer, strings_, strings_to_id_,
                 interned, registry, call>>

\* an acquire load of published_size (buffer.cc:147, buffer.cc:165-166)
LoadSize(chunk) == chunk.size

LoadPublishedSize(chunk) == chunk.published_size

\* buffer.cc:146-147
CountedSizeOfReservation(published_slot_count, chunk) ==
  published_slot_count + chunk.size

SlotCountAdded(published_slot_count, chunk) ==
  published_slot_count + LoadPublishedSize(chunk)

EventBuffer_PopulateHeader_TakeSize(s) ==
  /\ saver[s].pc = "eb_populate_size"
  /\ LET b == registry[saver[s].part]
     IN  /\ saver' = [saver EXCEPT
              ![s].published_slot_count =
                 SlotCountAdded(@, chunks[b][saver[s].chunk]),
              ![s].pc = "eb_populate_next"]
         /\ chunks' = [chunks EXCEPT ![b][saver[s].chunk].published_size = 0]
  /\ UNCHANGED <<current_, producer, strings_, strings_to_id_,
                 interned, registry, call>>

EventBuffer_PopulateHeader_LoadSize(s) ==
  /\ saver[s].pc = "eb_populate_size"
  /\ LET b == registry[saver[s].part]
     IN  saver' = [saver EXCEPT
           ![s].published_slot_count =
              SlotCountAdded(@, chunks[b][saver[s].chunk]),
           ![s].pc = "eb_populate_next"]
  /\ UNCHANGED <<chunks, current_, producer, strings_, strings_to_id_,
                 interned, registry, call>>

\* buffer.cc:150-152; the store to header->length keeps 32 bits
EventBufferHeader(published_slot_count) ==
  PartHeader(U32(2 * Half + 2), U32(0), U32(published_slot_count * 4))

\* buffer.cc:145: the acquire load of next, and the filling of the header
\* once the list ends
EventBuffer_PopulateHeader_LoadNext(s) ==
  /\ saver[s].pc = "eb_populate_next"
  /\ LET b == registry[saver[s].part]
         next == chunks[b][saver[s].chunk].next
     IN  saver' = [saver EXCEPT ![s] =
           IF next # NullChunk
           THEN [saver[s] EXCEPT !.chunk = next, !.pc = "eb_populate_size"]
           ELSE AfterPopulate([saver[s] EXCEPT
                  !.chunk = next,
                  !.parts[saver[s].part] =
                     EventBufferHeader(saver[s].published_slot_count)])]
  /\ UNCHANGED <<chunks, current_, producer, strings_, strings_to_id_,
                 interned, registry, call>>

\* the chunk header Runtime::Save passes to StartChunk
ChunkHeaders ==
  {[id |-> U32(1), type |-> U32(2), start_time |-> U32(0), end_time |-> U32(0)]}

\* buffer.cc:7-45
OutputBuffer_StartChunk(s, header) ==
  /\ saver[s].pc = "start_chunk"
  /\ LET r == StartChunk(saver[s].out, header, saver[s].parts)
     IN  saver' = [saver EXCEPT ![s] =
           BeginWrite([saver[s] EXCEPT !.parts = r.parts, !.out = r.out,
                                       !.chunk_length = r.chunk_length], 1)]
  /\ UNCHANGED <<chunks, current_, producer, strings_, strings_to_id_,
                 interned, registry, call>>

\* buffer.cc:77-98, under mu_
StringTable_WriteTo(s) ==
  /\ saver[s].pc = "st_write"
  /\ LET r == StringTableWriteTo(strings_, saver[s].parts[saver[s].part],
                                 saver[s].out)
     IN  saver' = [saver EXCEPT ![s] =
           AfterWrite([saver[s] EXCEPT !.out = r.out], r.ret)]
  /\ UNCHANGED <<chunks, current_, producer, strings_, strings_to_id_,
                 interned, registry, call>>

\* buffer.cc:167
AppendCountUnbounded(count, published_size) == published_size

AppendCount(count, published_size) == Min(count, published_size)

\* buffer.cc:160-163: what WriteTo returns when the chunks run out
SizeMismatchUnreported == TRUE

SizeMismatchReturn == FALSE

\* buffer.cc:159-168: the loop test, the size-mismatch return, the acquire
\* load of published_size
EventBuffer_WriteTo_LoadSize(s) ==
  /\ saver[s].pc = "eb_write"
  /\ LET sv == saver[s]
         b == registry[sv.part]
     IN  saver' = [saver EXCEPT ![s] =
           IF ~(sv.count > 0) THEN AfterWrite(sv, TRUE)
           ELSE IF sv.chunk = NullChunk
                THEN AfterWrite(sv, SizeMismatchReturn)
           ELSE LET published_size == LoadPublishedSize(chunks[b][sv.chunk])
                    append_count == AppendCount(sv.count, published_size)
                IN  [sv EXCEPT !.published_size = published_size,
                               !.append_count = append_count,
                               !.count = @ - append_count,
                               !.i = 0,
                               !.pc = IF 0 < append_count
                                      THEN "eb_write_copy"
                                      ELSE "eb_write_next"]]
  /\ UNCHANGED <<chunks, current_, producer, strings_, strings_to_id_,
                 interned, registry, call>>

\* buffer.cc:169-171: one iteration of the copy loop
CopiedFromEndOfChunk(sv, chunk) ==
  [sv EXCEPT !.out = AppendUint32(@, chunk.slots[sv.published_size
                                                   - sv.append_count + sv.i]),
             !.i = @ + 1,
             !.pc = IF sv.i + 1 < sv.append_count
                    THEN "eb_write_copy" ELSE "eb_write_next"]

CopiedInReverse(sv, chunk) ==
  [sv EXCEPT !.out = AppendUint32(@, chunk.slots[sv.append_count - 1 - sv.i]),
             !.i = @ + 1,
             !.pc = IF sv.i + 1 < sv.append_count
                    THEN "eb_write_copy" ELSE "eb_write_next"]

CopiedSlot(sv, chunk) ==
  [sv EXCEPT !.out = AppendUint32(@, chunk.slots[sv.i]),
             !.i = @ + 1,
             !.pc = IF sv.i + 1 < sv.append_count
                    THEN "eb_write_copy" ELSE "eb_write_next"]

EventBuffer_WriteTo_CopySlot(s) ==
  /\ saver[s].pc = "eb_write_copy"
  /\ saver' = [saver EXCEPT ![s] =
       CopiedSlot(saver[s], chunks[registry[saver[s].part]][saver[s].chunk])]
  /\ UNCHANGED <<chunks, current_, producer, strings_, strings_to_id_,
                 interned, registry, call>>

\* buffer.cc:173: the acquire load of next
EventBuffer_WriteTo_StayOnChunk(s) ==
  /\ saver[s].pc = "eb_write_next"
  /\ saver' = [saver EXCEPT ![s].pc = "eb_write"]
  /\ UNCHANGED <<chunks, current_, producer, strings_, strings_to_id_,
                 interned, registry, call>>

EventBuffer_WriteTo_LoadNext(s) ==
  /\ saver[s].pc = "eb_write_next"
  /\ LET b == registry[saver[s].part]
     IN  saver' = [saver EXCEPT
           ![s].chunk = chunks[b][saver[s].chunk].next,
           ![s].pc = "eb_write"]
  /\ UNCHANGED <<chunks, current_, producer, strings_, strings_to_id_,
                 interned, registry, call>>

\* A caller hands EventBuffer::WriteTo a header of its own making and a
\* fresh sink.
EventBuffer_WriteTo_Call(s, header) ==
  /\ saver[s].pc = "idle"
  /\ saver[s].pass < saver[s].saves
  /\ saver' = [saver EXCEPT ![s] =
       BeginWrite([saver[s] EXCEPT
                     !.pass = @ + 1,
                     !.prev = PassOf(saver[s]),
                     !.parts = <<header>>,
                     !.out = <<>>, !.starts = <<>>, !.ends = <<>>,
                     !.rets = <<>>, !.chunk_length = U32(0),
                     !.quiet = ProducersAtRest], 1)]
  /\ UNCHANGED <<chunks, current_, producer, strings_, strings_to_id_,
                 interned, registry, call>>

-----------------------------------------------------------------------------
(* Threads interning strings, and resetting the table.                     *)

\* the strings threads ask the table for
Strings == {<<>>, <<97>>, <<97, 98>>}

\* the names the threads of a traced program intern while it is saved
Names == {<<97>>, <<97, 98>>}

NothingInterned == [pairs |-> {}, again |-> FALSE, cleared |-> FALSE]

\* buffer.cc:49-61
StringTable_GetStringId(str) ==
  /\ LET r == GetStringId(strings_, strings_to_id_, str)
     IN  /\ strings_' = r.strings
         /\ strings_to_id_' = r.ids
         /\ interned' = [interned EXCEPT
                          !.pairs = @ \cup {<<str, r.id>>},
                          !.again = @ \/ str \in DOMAIN strings_to_id_]
  /\ UNCHANGED <<chunks, current_, producer, registry, saver, call>>

\* buffer.cc:100-104
StringTable_ClearSequenceOnly ==
  /\ strings_' = <<>>
  /\ interned' = [NothingInterned EXCEPT !.cleared = TRUE]
  /\ UNCHANGED <<chunks, current_, producer, strings_to_id_, registry, saver,
                 call>>

StringTable_Clear ==
  /\ strings_' = <<>>
  /\ strings_to_id_' = <<>>
  /\ interned' = [NothingInterned EXCEPT !.cleared = TRUE]
  /\ UNCHANGED <<chunks, current_, producer, registry, saver, call>>

-----------------------------------------------------------------------------
(* Specifications.                                                         *)

NoCall == [done |-> FALSE, header |-> <<>>, before |-> <<>>, parts |-> <<>>,
           chunk_length |-> U32(0), out |-> <<>>]

ProducerStep ==
  \E b \in Buffers :
    \/ \E count \in 1..ChunkLimit : AddSlots(b, count)
    \/ ExpandAndAddSlots_NewChunk(b)
    \/ ExpandAndAddSlots_PublishSize(b)
    \/ ExpandAndAddSlots_PublishNext(b)
    \/ WriteSlot(b)

SaveStep ==
  \E s \in Savers :
    \/ Save(s)
    \/ \E header \in ChunkHeaders : OutputBuffer_StartChunk(s, header)

BufferSaveStep ==
  \E s \in Savers :
    \/ EventBuffer_PopulateHeader_LoadSize(s)
    \/ EventBuffer_PopulateHeader_LoadNext(s)
    \/ EventBuffer_WriteTo_LoadSize(s)
    \/ EventBuffer_WriteTo_CopySlot(s)
    \/ EventBuffer_WriteTo_LoadNext(s)

TableSaveStep ==
  \E s \in Savers :
    \/ StringTable_PopulateHeader(s)
    \/ StringTable_WriteTo(s)

InternStep == \E str \in Strings : StringTable_GetStringId(str)

NameStep == \E str \in Names : StringTable_GetStringId(str)

\* One EventBuffer, its producer, and one saver of that buffer.
InitEventBuffer ==
  /\ chunks = [b \in {1} |-> NewEventBuffer]
  /\ current_ = [b \in {1} |-> head_]
  /\ producer = [b \in {1} |-> IdleProducer]
  /\ strings_ = <<>>
  /\ strings_to_id_ = <<>>
  /\ interned = NothingInterned
  /\ registry = <<1>>
  /\ saver = [s \in {1} |-> [IdleSaver EXCEPT !.saves = MaxSaves]]
  /\ call = NoCall

NextEventBuffer == ProducerStep \/ SaveStep \/ BufferSaveStep

SpecEventBuffer == InitEventBuffer /\ [][NextEventBuffer]_vars

\* Runtime::Save of the StringTable and one EventBuffer, against the
\* buffer's producer and threads interning strings.
InitSave ==
  /\ chunks = [b \in {1} |-> NewEventBuffer]
  /\ current_ = [b \in {1} |-> head_]
  /\ producer = [b \in {1} |-> IdleProducer]
  /\ strings_ = <<>>
  /\ strings_to_id_ = <<>>
  /\ interned = NothingInterned
  /\ registry = <<StringTablePart, 1>>
  /\ saver = [s \in {1} |-> [IdleSaver EXCEPT !.saves = 1]]
  /\ call = NoCall

NextSave ==
  ProducerStep \/ SaveStep \/ BufferSaveStep \/ TableSaveStep \/ NameStep

SpecSave == InitSave /\ [][NextSave]_vars


\* The StringTable alone: threads interning and resetting it, one saver.
InitStringTable ==
  /\ chunks = <<>>
  /\ current_ = <<>>
  /\ producer = <<>>
  /\ strings_ = <<>>
  /\ strings_to_id_ = <<>>
  /\ interned = NothingInterned
  /\ registry = <<StringTablePart>>
  /\ saver = [s \in {1} |-> [IdleSaver EXCEPT !.saves = MaxSaves]]
  /\ call = NoCall

NextStringTable == SaveStep \/ TableSaveStep \/ InternStep \/ StringTable_Clear

SpecStringTable == InitStringTable /\ [][NextStringTable]_vars

\* One EventBuffer, its producer, and a thread that saves it or calls its
\* WriteTo with any header of up to one slot more than the buffer can
\* have published.
WriteToHeaders ==
  {EventBufferHeader(n) : n \in 0..(ChunkLimit * (MaxChunks - 1) + 1)}

WriteToStep ==
  \E s \in Savers : \E header \in WriteToHeaders :
    EventBuffer_WriteTo_Call(s, header)

InitWriteTo ==
  /\ chunks = [b \in {1} |-> NewEventBuffer]
  /\ current_ = [b \in {1} |-> head_]
  /\ producer = [b \in {1} |-> IdleProducer]
  /\ strings_ = <<>>
  /\ strings_to_id_ = <<>>
  /\ interned = NothingInterned
  /\ registry = <<1>>
  /\ saver = [s \in {1} |-> [IdleSaver EXCEPT !.saves = 1]]
  /\ call = NoCall

NextWriteTo == ProducerStep \/ SaveStep \/ BufferSaveStep \/ WriteToStep

SpecWriteTo == InitWriteTo /\ [][NextWriteTo]_vars

\* The same, the reader being scheduled as long as it has a step to take;
\* nothing is assumed of the producer.
SpecWriteToScheduled == SpecWriteTo /\ WF_vars(BufferSaveStep)

\* One EventBuffer, its producer, and two savers of that buffer.
InitTwoSavers ==
  /\ chunks = [b \in {1} |-> NewEventBuffer]
  /\ current_ = [b \in {1} |-> head_]
  /\ producer = [b \in {1} |-> IdleProducer]
  /\ strings_ = <<>>
  /\ strings_to_id_ = <<>>
  /\ interned = NothingInterned
  /\ registry = <<1>>
  /\ saver = [s \in {1, 2} |-> [IdleSaver EXCEPT !.saves = 1]]
  /\ call = NoCall

NextTwoSavers == ProducerStep \/ SaveStep \/ BufferSaveStep

SpecTwoSavers == InitTwoSavers /\ [][NextTwoSavers]_vars

\* One EventBuffer whose producer also reserves more slots at once than a
\* chunk holds.
OversizeProducerStep ==
  \E b \in Buffers :
    \/ \E count \in 1..(ChunkLimit + 1) : AddSlots(b, count)
    \/ ExpandAndAddSlots_NewChunk(b)
    \/ ExpandAndAddSlots_PublishSize(b)
    \/ ExpandAndAddSlots_PublishNext(b)
    \/ WriteSlot(b)
    \/ WriteSlotOutsideStorage(b)

InitOversize ==
  /\ chunks = [b \in {1} |-> NewEventBuffer]
  /\ current_ = [b \in {1} |-> head_]
  /\ producer = [b \in {1} |-> IdleProducer]
  /\ strings_ = <<>>
  /\ strings_to_id_ = <<>>
  /\ interned = NothingInterned
  /\ registry = <<1>>
  /\ saver = <<>>
  /\ call = NoCall

SpecOversize == InitOversize /\ [][OversizeProducerStep]_vars

\* One call of OutputBuffer::StartChunk on a fresh sink, for every parts
\* array of at most MaxParts headers over these field values.
PartTypes == {U32(3 * Half), U32(2 * Half + 2)}
PartOffsets == {U32(0), U32(5)}
PartLengths == {U32(0), U32(1), U32(4), U32(6), [hi |-> Half - 1, lo |-> Half - 3]}

PartsArrays ==
  UNION {[1..n -> [type : PartTypes, offset : PartOffsets, length : PartLengths]] :
           n \in 0..MaxParts}

InitStartChunk ==
  /\ chunks = <<>>
  /\ current_ = <<>>
  /\ producer = <<>>
  /\ strings_ = <<>>
  /\ strings_to_id_ = <<>>
  /\ interned = NothingInterned
  /\ registry = <<>>
  /\ saver = <<>>
  /\ \E header \in ChunkHeaders, parts \in PartsArrays :
       call = [NoCall EXCEPT !.header = header, !.before = parts, !.parts = parts]

\* buffer.cc:7-45
StartChunkCall ==
  /\ ~call.done
  /\ LET r == StartChunk(call.out, call.header, call.parts)
     IN  call' = [call EXCEPT !.done = TRUE, !.parts = r.parts,
                              !.chunk_length = r.chunk_length, !.out = r.out]
  /\ UNCHANGED <<chunks, current_, producer, strings_, strings_to_id_,
                 interned, registry, saver>>

SpecStartChunk == InitStartChunk /\ [][StartChunkCall]_vars


-----------------------------------------------------------------------------
(* Properties.                                                             *)

\* saver s has completed a save and not begun the next
Finished(s) == saver[s].pc = "idle" /\ saver[s].pass >= 1

\* the last pass of saver s
LastPass(s) == PassOf(saver[s])

\* the parts of a save that are EventBuffers
BufferParts == {k \in 1..Len(registry) : registry[k] # StringTablePart}

\* the slot count part k's header declares in pass p
DeclaredSlots(p, k) == U32Div4(p.parts[k].length)

\* the slots part k's WriteTo emitted in pass p
EmittedSlots(p, k) == DecodeSlots(Payload(p, k))

\* the first n words of a producer's write sequence
WriteSequence(n) == [j \in 1..n |-> SlotValue(j)]

IsPrefix(a, b) == Len(a) <= Len(b) /\ a = SubSeq(b, 1, Len(a))

\* the sum of published_size over the chunks reachable from chunk c
RECURSIVE PublishedFrom(_, _)
PublishedFrom(b, c) ==
  IF c = NullChunk THEN 0
  ELSE chunks[b][c].published_size + PublishedFrom(b, chunks[b][c].next)

\* C1: with one producer and a concurrent saver, every EventBuffer::WriteTo
\* given a header that an earlier PopulateHeader of the same buffer filled
\* returns true: there is no size mismatch in any interleaving.
C1_WriteToReturnsTrue ==
  \A s \in Savers :
    \A k \in BufferParts :
      /\ k <= Len(saver[s].rets) => saver[s].rets[k]
      /\ k <= Len(saver[s].prev.rets) => saver[s].prev.rets[k]

\* a WriteTo returned true for a header of at least one slot, although the
\* producer ran during the pass and has published more since the header
C1_Witness ==
  \E s \in Savers : \E k \in BufferParts :
    /\ Finished(s)
    /\ ~saver[s].quiet
    /\ saver[s].rets[k]
    /\ DeclaredSlots(LastPass(s), k) > 0
    /\ PublishedFrom(registry[k], head_) > DeclaredSlots(LastPass(s), k)

\* C2: WriteTo never appends more than header.length / 4 slots, whatever
\* the producer publishes after PopulateHeader, and a WriteTo that returns
\* true has appended exactly header.length / 4 slots.
C2_WriteToBounded ==
  \A s \in Savers :
    \A k \in BufferParts :
      k <= Len(saver[s].starts) =>
        LET sv == saver[s]
            end == IF k <= Len(sv.ends) THEN sv.ends[k] ELSE Len(sv.out)
            appended == end - sv.starts[k]
        IN  /\ appended <= 4 * DeclaredSlots(sv, k)
            /\ (k <= Len(sv.rets) /\ sv.rets[k]) =>
                 appended = 4 * DeclaredSlots(sv, k)

\* WriteTo has loaded a published_size above the count that remained, took
\* only the remaining count from the chunk, and has now emitted them all
C2_Witness ==
  \E s \in Savers :
    /\ saver[s].pc = "eb_write_next"
    /\ saver[s].count = 0
    /\ 0 < saver[s].append_count
    /\ saver[s].append_count < saver[s].published_size
    /\ Len(saver[s].out) - saver[s].starts[saver[s].part]
         = 4 * DeclaredSlots(saver[s], saver[s].part)

\* C3: a reader never reads a slot that is reserved but not yet written:
\* every index WriteTo reads is below the published_size it loaded from
\* the chunk, and every slot below a chunk's published_size was written
\* before that size was stored.
C3_ReadsOnlyPublishedSlots ==
  /\ \A s \in Savers :
       saver[s].pc = "eb_write_copy" =>
         LET chunk == chunks[registry[saver[s].part]][saver[s].chunk]
         IN  /\ saver[s].i < saver[s].published_size
             /\ saver[s].published_size <= chunk.published_size
             /\ chunk.slots[saver[s].i] # Indeterminate
  /\ \A b \in Buffers : \A c \in 1..Len(chunks[b]) :
       \A j \in 0..(chunks[b][c].published_size - 1) :
         chunks[b][c].slots[j] # Indeterminate

\* WriteTo is about to read a slot while the producer holds a reservation
\* it has not finished writing
C3_Witness ==
  \E s \in Savers :
    /\ saver[s].pc = "eb_write_copy"
    /\ LET b == registry[saver[s].part]
       IN  /\ producer[b].pc = "fill"
           /\ chunks[b][producer[b].chunk].slots[producer[b].at] = Indeterminate

\* C4: slot count preservation: when the producer has written K slots and
\* does not run, PopulateHeader reports length = 4K and WriteTo emits those
\* K slots in write order.
C4_SlotCountPreserved ==
  \A s \in Savers :
    (Finished(s) /\ saver[s].quiet) =>
      \A k \in BufferParts :
        LET K == producer[registry[k]].written
        IN  /\ saver[s].parts[k].length = U32(4 * K)
            /\ EmittedSlots(LastPass(s), k) = WriteSequence(K)

\* C5: of two successive passes over a buffer the first declares no more
\* slots than the second, and the slots the first emitted are a prefix of
\* the slots the second emitted.
C5_SnapshotMonotone ==
  \A s \in Savers :
    (Finished(s) /\ saver[s].pass >= 2) =>
      \A k \in BufferParts :
        /\ DeclaredSlots(saver[s].prev, k) <= DeclaredSlots(LastPass(s), k)
        /\ IsPrefix(EmittedSlots(saver[s].prev, k), EmittedSlots(LastPass(s), k))

\* two passes, the second strictly longer than the non-empty first
C5_Witness ==
  \E s \in Savers : \E k \in BufferParts :
    /\ Finished(s)
    /\ saver[s].pass >= 2
    /\ 0 < Len(EmittedSlots(saver[s].prev, k))
    /\ Len(EmittedSlots(saver[s].prev, k)) < Len(EmittedSlots(LastPass(s), k))


\* the number the four bytes at offset pos of out encode
Uint32At(out, pos) == U32Nat(DecodeSlots(SubSeq(out, pos + 1, pos + 4))[1])

\* C6: in one save pass run against producers and interning threads, every
\* part's payload starts at byte 24 + 12 * part_count + offset of the
\* chunk, offset being the one written in its part header, and the bytes
\* emitted in total are the length written in the chunk header.
C6_HeadersMatchPayloads ==
  \A s \in Savers :
    LET sv == saver[s]
        part_count == Len(registry)
        payloads == kChunkHeaderSize + part_count * kPartHeaderSize
    IN  /\ \A k \in 1..Len(sv.starts) :
             sv.starts[k] = payloads
               + Uint32At(sv.out, kChunkHeaderSize + (k - 1) * kPartHeaderSize + 4)
        /\ Finished(s) => Len(sv.out) = Uint32At(sv.out, 8)

\* a finished pass whose string part needed padding and whose buffer part
\* is not empty, the table and the buffer having grown past the headers
C6_Witness ==
  \E s \in Savers :
    /\ Finished(s)
    /\ \E k \in 1..Len(registry) :
         /\ registry[k] = StringTablePart
         /\ U32Mod(saver[s].parts[k].length, kAlignment) # 0
         /\ RawLength(strings_) > U32Nat(saver[s].parts[k].length)
    /\ \E k \in BufferParts :
         /\ DeclaredSlots(saver[s], k) > 0
         /\ U32Nat(saver[s].parts[k].offset) > 0
         /\ PublishedFrom(registry[k], head_) > DeclaredSlots(saver[s], k)

\* the null-terminated strings of strs, concatenated
RECURSIVE Serialized(_)
Serialized(strs) ==
  IF strs = <<>> THEN <<>> ELSE Head(strs) \o <<0>> \o Serialized(Tail(strs))

\* C7: if threads only intern strings between StringTable::PopulateHeader
\* and the WriteTo given its header, WriteTo returns true and writes
\* exactly header.length bytes, the strings the table held at
\* PopulateHeader in id order, then the alignment padding.
C7_StringTableWriteToExact ==
  \A s \in Savers :
    \A k \in 1..Len(saver[s].rets) :
      registry[k] = StringTablePart =>
        /\ saver[s].rets[k]
        /\ \E n \in 0..Len(strings_) :
             /\ RawLength(SubSeq(strings_, 1, n)) = U32Nat(saver[s].parts[k].length)
             /\ Payload(saver[s], k) = Align(Serialized(SubSeq(strings_, 1, n)))

\* C8: with no Clear, every GetStringId of the same string returns the
\* same id and calls with different strings return different ids.
C8_InterningDeterministic ==
  \A p, q \in interned.pairs : (p[1] = q[1]) <=> (p[2] = q[2])

\* two strings were interned and a call asked for a string already there
C8_Witness ==
  /\ ~interned.cleared
  /\ interned.again
  /\ Cardinality(interned.pairs) >= 2

\* C9: under any sequence of GetStringId and Clear, with N distinct
\* strings interned since the last Clear the ids of the index are exactly
\* 0 .. N-1, the sequence has length N and holds each string at its id;
\* after a Clear both are empty.
C9_DenseConsistentIds ==
  LET N == Cardinality({p[1] : p \in interned.pairs})
  IN  /\ Len(strings_) = N
      /\ Cardinality(DOMAIN strings_to_id_) = N
      /\ {strings_to_id_[t] : t \in DOMAIN strings_to_id_} = 0..(N - 1)
      /\ \A t \in DOMAIN strings_to_id_ : strings_[strings_to_id_[t] + 1] = t
      /\ \A p \in interned.pairs :
           p[1] \in DOMAIN strings_to_id_ /\ strings_to_id_[p[1]] = p[2]

\* after a Clear two strings were interned, a third was not
C9_Witness ==
  /\ interned.cleared
  /\ Cardinality(interned.pairs) = 2
  /\ Len(strings_) = 2


\* Numbers without a width: top * 2^32 + the uint32_t low.
Exact(v) == [top |-> 0, low |-> v]

ExactAdd(a, b) ==
  LET lo == a.low.lo + b.low.lo
      hi == a.low.hi + b.low.hi + (lo \div Half)
  IN  [top |-> a.top + b.top + (hi \div Half),
       low |-> [hi |-> hi % Half, lo |-> lo % Half]]

\* align4(length): length rounded up to a multiple of 4
Align4(length) ==
  LET rem == U32Mod(length, kAlignment)
  IN  IF rem = 0 THEN Exact(length)
      ELSE ExactAdd(Exact(length), Exact(U32(kAlignment - rem)))

\* the sum of align4(parts[j].length) over j <= n
RECURSIVE SumAligned(_, _)
SumAligned(parts, n) ==
  IF n = 0 THEN Exact(U32(0))
  ELSE ExactAdd(SumAligned(parts, n - 1), Align4(parts[n].length))

\* what a finished StartChunk call leaves unchanged, aligned and written
LayoutWritten ==
  LET n == Len(call.before)
  IN  /\ Len(call.parts) = n
      /\ \A i \in 1..n :
           /\ U32Mod(call.parts[i].offset, kAlignment) = 0
           /\ call.parts[i].type = call.before[i].type
           /\ call.parts[i].length = call.before[i].length
           /\ DecodeSlots(SubSeq(call.out,
                 kChunkHeaderSize + (i - 1) * kPartHeaderSize + 1,
                 kChunkHeaderSize + i * kPartHeaderSize))
                = <<call.parts[i].type, call.parts[i].offset, call.parts[i].length>>
      /\ n > 0 => call.parts[1].offset = U32(0)
      /\ DecodeSlots(SubSeq(call.out, 9, 12)) = <<call.chunk_length>>
      /\ Len(call.out) = kChunkHeaderSize + n * kPartHeaderSize

\* the chunk length of the law: 24 + 12 * part_count + sum of align4
LawLength ==
  ExactAdd(Exact(U32(kChunkHeaderSize + Len(call.before) * kPartHeaderSize)),
           SumAligned(call.before, Len(call.before)))

\* the alignment law of a finished StartChunk call, in numbers without width
AlignmentLaw ==
  /\ LayoutWritten
  /\ \A i \in 1..Len(call.before) :
       Exact(call.parts[i].offset) = SumAligned(call.before, i - 1)
  /\ Exact(call.chunk_length) = LawLength

\* the same law with every sum taken modulo 2^32
AlignmentLawModulo ==
  /\ LayoutWritten
  /\ \A i \in 1..Len(call.before) :
       call.parts[i].offset = SumAligned(call.before, i - 1).low
  /\ call.chunk_length = LawLength.low

\* C10: the alignment law: StartChunk gives part i the offset
\* sum over j < i of align4(parts[j].length), whatever offset it held,
\* writes the chunk length 24 + 12 * part_count + sum of align4(part.length)
\* and leaves each part's type and length unchanged.
C10_AlignmentLaw == call.done => AlignmentLaw

\* The code computes the law modulo 2^32: its offsets and chunk length are
\* the sums of the law reduced modulo 2^32, hence the sums themselves when
\* the chunk length of the law is below 2^32.
AlignmentLawModuloHolds ==
  call.done => /\ AlignmentLawModulo
               /\ LawLength.top = 0 => AlignmentLaw

-----------------------------------------------------------------------------
(* The publication protocol of the EventBuffer.                            *)

\* the chunks buffer b has allocated
ChunksOf(b) == 1..Len(chunks[b])

\* C11: in every reachable state every chunk of an EventBuffer has
\* published_size <= size, and no step lowers a chunk's published_size.
C11_PublishedSizeBounded ==
  /\ [](\A b \in Buffers : \A c \in ChunksOf(b) :
          chunks[b][c].published_size <= chunks[b][c].size)
  /\ [][\A b \in Buffers : \A c \in ChunksOf(b) :
          chunks[b][c].published_size <= chunks'[b][c].published_size]_vars

\* a chunk was sealed below its limit while the current chunk holds
\* reserved slots that are not published
C11_Witness ==
  \E b \in Buffers : \E c \in ChunksOf(b) :
    /\ 0 < chunks[b][c].published_size
    /\ chunks[b][c].published_size < chunks[b][c].limit
    /\ chunks[b][current_[b]].published_size < chunks[b][current_[b]].size

\* C12: sealing order: a chunk whose next is non-null has published_size
\* equal to its size, and no later step changes its size, its slots or its
\* published_size; published_size is stored before next, so whoever loads
\* a non-null next then loads the final size from published_size.
C12_SealingOrder ==
  /\ [](\A b \in Buffers : \A c \in ChunksOf(b) :
          chunks[b][c].next # NullChunk =>
            chunks[b][c].published_size = chunks[b][c].size)
  /\ [][\A b \in Buffers : \A c \in ChunksOf(b) :
          chunks[b][c].next # NullChunk => chunks'[b][c] = chunks[b][c]]_vars

\* a saver in WriteTo has loaded the final size from the published_size of
\* a chunk whose next is non-null, while the producer fills the chunk
\* after it
C12_Witness ==
  \E s \in Savers :
    /\ saver[s].pc = "eb_write_copy"
    /\ LET b == registry[saver[s].part]
           chunk == chunks[b][saver[s].chunk]
       IN  /\ chunk.next # NullChunk
           /\ saver[s].published_size = chunk.size
           /\ producer[b].pc = "fill"
           /\ producer[b].chunk = chunk.next

\* C13: an oversize reservation is honored: after ExpandAndAddSlots(n) with
\* n > chunk_limit the new chunk has room for n slots, so its size does not
\* exceed its allocated capacity and every reserved slot index lies inside
\* its slot storage.
C13_OversizeHonored ==
  \A b \in Buffers :
    /\ \A c \in ChunksOf(b) : chunks[b][c].size <= chunks[b][c].limit
    /\ producer[b].pc = "fill" =>
         producer[b].at + producer[b].left <= chunks[b][producer[b].chunk].limit

\* The part of C13 the code keeps: every chunk is allocated at the
\* configured limit, the one after an oversize chunk too.
AllocatedAtConfiguredLimit ==
  \A b \in Buffers : \A c \in ChunksOf(b) :
    /\ chunks[b][c].limit = ChunkLimit
    /\ DOMAIN chunks[b][c].slots = 0..(ChunkLimit - 1)

\* C14: gap-free producer order: at every point of an EventBuffer::WriteTo
\* run against the producer, the slots emitted so far are the first slots
\* the producer wrote, in the order it wrote them, and a WriteTo that
\* returned true has emitted exactly the first header.length / 4 of them.
C14_GapFreeProducerOrder ==
  \A s \in Savers : \A k \in BufferParts :
    /\ k <= Len(saver[s].starts) =>
         LET end == IF k <= Len(saver[s].ends) THEN saver[s].ends[k]
                    ELSE Len(saver[s].out)
             emitted == DecodeSlots(SubSeq(saver[s].out,
                                           saver[s].starts[k] + 1, end))
         IN  /\ emitted = WriteSequence(Len(emitted))
             /\ (k <= Len(saver[s].rets) /\ saver[s].rets[k]) =>
                  Len(emitted) = DeclaredSlots(saver[s], k)
    /\ (k <= Len(saver[s].prev.rets) /\ saver[s].prev.rets[k]) =>
         EmittedSlots(saver[s].prev, k)
           = WriteSequence(DeclaredSlots(saver[s].prev, k))

\* PopulateHeader loaded published_size = 0 from the head chunk just before
\* it was sealed and followed its next pointer, so that the header declares
\* fewer slots than the head chunk holds; WriteTo returned true
C14_Witness ==
  \E s \in Savers : \E k \in BufferParts :
    /\ Finished(s)
    /\ saver[s].rets[k]
    /\ 0 < DeclaredSlots(LastPass(s), k)
    /\ DeclaredSlots(LastPass(s), k) < chunks[registry[k]][head_].published_size

-----------------------------------------------------------------------------
(* The StringTable under Clear.                                            *)

\* n rounded up to a multiple of kAlignment
Padded(n) == ((n + kAlignment - 1) \div kAlignment) * kAlignment

\* C15: for any table state at WriteTo, a table cleared or cleared and
\* refilled after PopulateHeader included, StringTable::WriteTo returns
\* true only if it appended exactly header.length bytes before the
\* alignment padding (it returns false whenever the table cannot produce
\* exactly header.length bytes at a string boundary).
C15_WriteToTrueOnlyIfExact ==
  \A s \in Savers :
    \A k \in 1..Len(saver[s].rets) :
      (registry[k] = StringTablePart /\ saver[s].rets[k]) =>
        Len(Payload(saver[s], k)) = Padded(U32Nat(saver[s].parts[k].length))

-----------------------------------------------------------------------------
(* EventBuffer::WriteTo under any header.                                  *)

\* C16: size mismatch is reported: with no producer step during the call,
\* WriteTo returns false, the chunk list exhausted, if header.length / 4 is
\* greater than the sum of published_size over the chunks reachable from
\* head_, and true otherwise; with header.length = 0 it reads no chunk.
C16_SizeMismatchReported ==
  \A s \in Savers : \A k \in BufferParts :
    /\ (Finished(s) /\ saver[s].quiet) =>
         /\ saver[s].rets[k] <=>
              DeclaredSlots(LastPass(s), k) <= PublishedFrom(registry[k], head_)
         /\ ~saver[s].rets[k] => saver[s].chunk = NullChunk
    /\ (saver[s].part = k
          /\ saver[s].pc \in {"eb_write_copy", "eb_write_next"}) =>
         DeclaredSlots(saver[s], k) > 0
    /\ (Finished(s) /\ DeclaredSlots(LastPass(s), k) = 0) =>
         /\ saver[s].rets[k]
         /\ Payload(LastPass(s), k) = <<>>

\* with no producer step during the call, WriteTo emitted every published
\* slot of a buffer of two sealed chunks, then ran out of chunks
C16_Witness ==
  \E s \in Savers : \E k \in BufferParts :
    /\ Finished(s)
    /\ saver[s].quiet
    /\ ~saver[s].rets[k]
    /\ PublishedFrom(registry[k], head_) > ChunkLimit
    /\ Len(EmittedSlots(LastPass(s), k)) = PublishedFrom(registry[k], head_)

-----------------------------------------------------------------------------
(* The current chunk.                                                      *)

\* C17: in every reachable state of an EventBuffer the writer's current
\* (tail) chunk has published_size = 0.
C17_TailUnpublished ==
  \A b \in Buffers : chunks[b][current_[b]].published_size = 0

\* C17 as amended: the current chunk is the tail of the list and has
\* published_size = 0, except between the store of published_size and the
\* move of current_ in ExpandAndAddSlots, where it has published_size =
\* size; the chunk ExpandAndAddSlots(count) allocates has size = count and
\* published_size = 0, and a saver's header and output hold none of the
\* slots reserved in a chunk whose published_size is still 0.
C17_TailUnpublishedOutsideExpand ==
  /\ \A b \in Buffers :
       LET tail == chunks[b][current_[b]]
       IN  /\ tail.next = NullChunk
           /\ tail.published_size =
                IF producer[b].pc = "publish_next" THEN tail.size ELSE 0
           /\ producer[b].pc \in {"publish_size", "publish_next"} =>
                /\ chunks[b][producer[b].new_chunk].size = producer[b].count
                /\ chunks[b][producer[b].new_chunk].published_size = 0
  /\ \A s \in Savers : \A k \in BufferParts :
       /\ k <= Len(saver[s].starts) =>
            DeclaredSlots(saver[s], k) <= PublishedFrom(registry[k], head_)
       /\ k <= Len(saver[s].ends) =>
            Len(EmittedSlots(saver[s], k)) <= PublishedFrom(registry[k], head_)

\* a chunk linked by ExpandAndAddSlots is the current chunk, its reserved
\* slots are written, and a save made with the producer at rest has
\* counted and emitted the sealed chunk's slots only
C17_Witness ==
  \E s \in Savers : \E k \in BufferParts :
    LET b == registry[k]
    IN  /\ Finished(s)
        /\ saver[s].quiet
        /\ current_[b] # head_
        /\ chunks[b][current_[b]].size > 0
        /\ chunks[b][current_[b]].published_size = 0
        /\ 0 < DeclaredSlots(LastPass(s), k)
        /\ Len(EmittedSlots(LastPass(s), k)) = DeclaredSlots(LastPass(s), k)
        /\ DeclaredSlots(LastPass(s), k) < producer[b].written

-----------------------------------------------------------------------------
(* Concurrent savers.                                                      *)

\* C18: no step of EventBuffer::PopulateHeader or EventBuffer::WriteTo
\* changes the buffer (current_, and every chunk's size, published_size,
\* next and slots), so of two savers running concurrently against the
\* same buffer and its producer, each has its WriteTo return true having
\* emitted exactly the slot count its own header declared.
C18_SaversLeaveBufferUnchanged ==
  /\ [][BufferSaveStep => UNCHANGED <<chunks, current_, producer>>]_vars
  /\ [](\A s \in Savers : \A k \in BufferParts :
          k <= Len(saver[s].rets) =>
            /\ saver[s].rets[k]
            /\ Len(EmittedSlots(saver[s], k)) = DeclaredSlots(saver[s], k))

\* both savers are copying slots of the same chunk, for headers that
\* declare different counts, while the producer fills a reservation
C18_Witness ==
  /\ Savers = {1, 2}
  /\ saver[1].pc = "eb_write_copy"
  /\ saver[2].pc = "eb_write_copy"
  /\ saver[1].chunk = saver[2].chunk
  /\ saver[1].i > 0
  /\ DeclaredSlots(saver[1], 1) < DeclaredSlots(saver[2], 1)
  /\ producer[1].pc = "fill"

-----------------------------------------------------------------------------
(* Termination of EventBuffer::WriteTo.                                    *)

\* a saver is inside EventBuffer::WriteTo
InWriteTo ==
  \E s \in Savers : saver[s].pc \in {"eb_write", "eb_write_copy", "eb_write_next"}

-----------------------------------------------------------------------------
(* StringTable::PopulateHeader.                                            *)

\* C20: StringTable::PopulateHeader sets header.type = 0x30000,
\* header.offset = 0 and header.length = the sum of len(s) + 1 over the
\* strings the table holds when it is called (0 for an empty table), and
\* does not change the table.
C20_StringTableHeader ==
  [][\A s \in Savers :
       (saver[s].pc = "st_populate" /\ saver'[s].pc # "st_populate") =>
          /\ saver'[s].parts[saver[s].part] =
               [type |-> [hi |-> 3, lo |-> 0],
                offset |-> [hi |-> 0, lo |-> 0],
                length |-> [hi |-> 0, lo |-> Len(Serialized(strings_))]]
          /\ UNCHANGED <<strings_, strings_to_id_>>]_vars

\* PopulateHeader has filled the header for a table of an empty and a
\* two-byte string, and the table has not changed since
C20_Witness ==
  \E s \in Savers :
    /\ saver[s].pc = "start_chunk"
    /\ Len(strings_) = 2
    /\ <<>> \in DOMAIN strings_to_id_
    /\ saver[s].parts[1].length = [hi |-> 0, lo |-> 4]
    /\ Len(Serialized(strings_)) = 4

====
